---------------------------- MODULE Spec2Model ----------------------------
(***************************************************************************)
(* A model of ConfigurableMRTPage.js: the date-preset resolver, the        *)
(* client-side filter evaluator, the data hook (mock / API fetch with its  *)
(* effect dependencies), the export row policy and the CSV / QuickBooks    *)
(* serializers.                                                            *)
(*                                                                         *)
(* Strings are sequences of one-character strings.  Instants are integers  *)
(* counted in ticks of a uniform calendar: TicksPerDay ticks a day,        *)
(* DaysPerMonth days a month, QuarterMonths months a quarter, four         *)
(* quarters a year.                                                        *)
(***************************************************************************)
EXTENDS Integers, Sequences, FiniteSets

VARIABLES
    config,        \* the config prop: dataSource, server flags, filters
    filtersState,  \* useState({}) of the page: an object, field -> filter value
    pagination,    \* useState({pageIndex: 0, pageSize: 10})
    sorting,       \* useState([])
    data,          \* useConfigurableData: useState([])
    loading,       \* useConfigurableData: useState(false)
    error,         \* useConfigurableData: useState(null)
    inflight,      \* the API fetches awaiting their response
    started,       \* number of fetchData calls so far
    applied,       \* the API fetches whose response was applied, in order: id, url, rows
    failed,        \* the API fetches that ended in the catch block: id, responses applied before
    rowSelection,  \* the table's row selection: indexes into the rows shown
    exported,      \* what the last export handed to its serializer
    clock,         \* the wall clock
    now,           \* the wall clock at the start of the pass that computed filteredData
    tickAt,        \* the clock read of that pass from which the clock showed now + 1 (0: none)
    csvCall,       \* toCSV: its arguments and, once it returned, its text
    qbCall,        \* exportQuickBooksJSON: its arguments and, once it ran, its outcome
    presetCall,    \* getPresetDateRange: its preset, the moment of the call, its range
    delivered      \* the response that fetchData's await received last, and its request

vars == <<config, filtersState, pagination, sorting, data, loading, error,
          inflight, started, applied, failed, rowSelection, exported, clock,
          now, tickAt, csvCall, qbCall, presetCall, delivered>>

-----------------------------------------------------------------------------
(* Bounds of the model *)

TicksPerDay == 2
DaysPerMonth == 2
MaxRows == 2
MaxFetches == 2
MaxTicks == 1
MaxColumns == 2
MaxMapping == 2
MaxPresetN == 3

(* Program constants *)

QuarterMonths == 3
DefaultDays == 7
DefaultYears == 1
DefaultPageSize == 10

-----------------------------------------------------------------------------
(* Generic helpers *)

Range(seq) == {seq[i] : i \in 1..Len(seq)}

RECURSIVE SeqFilter(_, _)
SeqFilter(seq, keep) ==
    IF seq = <<>> THEN <<>>
    ELSE IF Head(seq) \in keep THEN <<Head(seq)>> \o SeqFilter(Tail(seq), keep)
    ELSE SeqFilter(Tail(seq), keep)

SeqsUpTo(S, len) == UNION {[1..m -> S] : m \in 0..len}

-----------------------------------------------------------------------------
(* JavaScript values held by rows *)

Undefined == [k |-> "undef", s |-> <<>>, n |-> 0]
Null == [k |-> "null", s |-> <<>>, n |-> 0]
Str(s) == [k |-> "str", s |-> s, n |-> 0]
Num(n) == [k |-> "num", s |-> <<>>, n |-> n]
Bool(b) == [k |-> "bool", s |-> <<>>, n |-> IF b THEN 1 ELSE 0]
\* a string that dayjs parses, naming the instant t
Iso(t) == [k |-> "iso", s |-> <<>>, n |-> t]

\* JavaScript truthiness of a row value
Truthy(v) ==
    CASE v.k = "undef" -> FALSE
      [] v.k = "null" -> FALSE
      [] v.k = "str" -> v.s # <<>>
      [] v.k = "num" -> v.n # 0
      [] v.k = "bool" -> v.n = 1
      [] OTHER -> TRUE

\* String(v) / v.toString() of a scalar row value
DecimalDigits == <<"0", "1", "2", "3", "4", "5", "6", "7", "8", "9">>

RECURSIVE Decimal(_)
Decimal(n) ==
    IF n < 10 THEN <<DecimalDigits[n + 1]>>
    ELSE Decimal(n \div 10) \o <<DecimalDigits[(n % 10) + 1]>>

\* the text of the date string that names the instant t: its tick count after "T"
IsoText(t) == <<"T">> \o Decimal(t)

JsString(v) ==
    CASE v.k = "str" -> v.s
      [] v.k = "num" -> Decimal(v.n)
      [] v.k = "bool" -> IF v.n = 1 THEN <<"t", "r", "u", "e">>
                         ELSE <<"f", "a", "l", "s", "e">>
      [] v.k = "iso" -> IsoText(v.n)
      [] v.k = "null" -> <<"n", "u", "l", "l">>
      [] OTHER -> <<"u", "n", "d", "e", "f", "i", "n", "e", "d">>

UpperCase == <<"A", "B", "C", "D", "E", "F", "G", "H", "I", "J", "K", "L", "M",
               "N", "O", "P", "Q", "R", "S", "T", "U", "V", "W", "X", "Y", "Z">>
LowerCase == <<"a", "b", "c", "d", "e", "f", "g", "h", "i", "j", "k", "l", "m",
               "n", "o", "p", "q", "r", "s", "t", "u", "v", "w", "x", "y", "z">>

LowerChar(c) ==
    IF c \in Range(UpperCase)
    THEN LowerCase[CHOOSE i \in 1..Len(UpperCase) : UpperCase[i] = c]
    ELSE c

toLowerCase(s) == [i \in 1..Len(s) |-> LowerChar(s[i])]

RECURSIVE TrimLeft(_)
TrimLeft(s) == IF s # <<>> /\ Head(s) = " " THEN TrimLeft(Tail(s)) ELSE s

RECURSIVE TrimRight(_)
TrimRight(s) ==
    IF s # <<>> /\ s[Len(s)] = " " THEN TrimRight(SubSeq(s, 1, Len(s) - 1)) ELSE s

trim(s) == TrimRight(TrimLeft(s))

\* hay.includes(q)
includes(hay, q) ==
    \E i \in 1..(Len(hay) + 1) :
        /\ i + Len(q) - 1 <= Len(hay)
        /\ SubSeq(hay, i, i + Len(q) - 1) = q

\* a JavaScript object: its own properties in insertion order
ObjKeys(o) == {o[i].key : i \in 1..Len(o)}

ObjHas(o, key) == key \in ObjKeys(o)

ObjGet(o, key, undef) ==
    IF ObjHas(o, key)
    THEN (CHOOSE p \in Range(o) : p.key = key).val
    ELSE undef

\* { ...o, [key]: val }
ObjSpread(o, key, val) ==
    IF ObjHas(o, key)
    THEN [i \in 1..Len(o) |-> IF o[i].key = key THEN [key |-> key, val |-> val] ELSE o[i]]
    ELSE Append(o, [key |-> key, val |-> val])

-----------------------------------------------------------------------------
(* dayjs on the uniform calendar *)

TicksPerMonth == TicksPerDay * DaysPerMonth
TicksPerYear == 4 * QuarterMonths * TicksPerMonth

\* a dayjs object, null, or an invalid dayjs object
D(t) == [k |-> "date", t |-> t]
NullD == [k |-> "null", t |-> 0]
InvalidD == [k |-> "invalid", t |-> 0]

startOfDay(t) == t - (t % TicksPerDay)
endOfDay(t) == startOfDay(t) + TicksPerDay - 1
monthOf(t) == (t % TicksPerYear) \div TicksPerMonth
startOfMonth(t) == t - (t % TicksPerMonth)
\* dayjs().month(m): the same day and time of month m of the same year
setMonth(t, m) == t - monthOf(t) * TicksPerMonth + m * TicksPerMonth

\* The clock of a render pass: read number k of the pass shows clk.now, or
\* clk.now + 1 from read clk.tickAt on.
Read(clk, k) == clk.now + (IF clk.tickAt # 0 /\ k >= clk.tickAt THEN 1 ELSE 0)

\* Every test of a row against a filter may read the clock four times: in
\* startOfToday, twice in startOfQuarter, and in dayjs(undefined).
ReadsPerTest == 4

ReadsAt(clk, i, j, nFilters) ==
    [r \in 1..ReadsPerTest |->
        Read(clk, ((i - 1) * nFilters + (j - 1)) * ReadsPerTest + r)]

startOfToday(rd) == startOfDay(rd[1])

startOfQuarter(rd) ==
    LET month == monthOf(rd[2])
        qStartMonth == month - (month % QuarterMonths)
    IN startOfMonth(setMonth(rd[3], qStartMonth))

\* Presets and the values of a date filter's start / end
UndefDV == [k |-> "undef", n |-> 0, type |-> ""]
EmptyDV == [k |-> "empty", n |-> 0, type |-> ""]
DateStr(t) == [k |-> "datestr", n |-> t, type |-> ""]
Preset(type, n) == [k |-> "preset", n |-> n, type |-> type]

TruthyDV(v) == v.k \in {"datestr", "preset"}

getPresetDateRange(preset, rd) ==
    LET today == startOfToday(rd)
    IN CASE preset.k = "preset" /\ preset.type = "lastNDays" ->
              [start |-> D(today - ((IF preset.n # 0 THEN preset.n ELSE DefaultDays) - 1)
                                     * TicksPerDay),
               end |-> D(endOfDay(today))]
         [] preset.k = "preset" /\ preset.type = "quarterToDate" ->
              [start |-> D(startOfQuarter(rd)), end |-> D(endOfDay(today))]
         [] preset.k = "preset" /\ preset.type = "lastNYears" ->
              [start |-> D(startOfDay(today - (IF preset.n # 0 THEN preset.n
                                                ELSE DefaultYears) * TicksPerYear)),
               end |-> D(endOfDay(today))]
         [] OTHER -> [start |-> NullD, end |-> NullD]

-----------------------------------------------------------------------------
(* Filter state values and the filter logic *)

UndefFV == [k |-> "undef", s |-> <<>>, o |-> <<>>, a |-> <<>>]
StrFV(s) == [k |-> "str", s |-> s, o |-> <<>>, a |-> <<>>]
ArrFV(a) == [k |-> "arr", s |-> <<>>, o |-> <<>>, a |-> a]
ObjFV(o) == [k |-> "obj", s |-> <<>>, o |-> o, a |-> <<>>]

TruthyFV(fs) == fs.k \in {"arr", "obj"} \/ (fs.k = "str" /\ fs.s # <<>>)

\* dayjs(value) of a row value
dayjs(value, rd) ==
    CASE value.k = "undef" -> D(rd[4])
      [] value.k \in {"iso", "num", "bool"} -> D(value.n)
      [] OTHER -> InvalidD

selectTest(fs, value) ==
    IF ~TruthyFV(fs) \/ (fs.k = "arr" /\ Len(fs.a) = 0) THEN TRUE
    ELSE LET selected == IF fs.k = "arr" THEN fs.a ELSE <<fs.s>>
         IN fs.k # "obj" /\ value.k = "str" /\ value.s \in Range(selected)

textTest(fs, value) ==
    LET q == toLowerCase(trim(IF TruthyFV(fs) THEN fs.s ELSE <<>>))
        hay == toLowerCase(IF Truthy(value) THEN JsString(value) ELSE <<>>)
    IN IF q = <<>> THEN TRUE ELSE includes(hay, q)

dateTest(fs, value, rd) ==
    LET o == fs.o
        s0 == ObjGet(o, "start", UndefDV)
        e0 == ObjGet(o, "end", UndefDV)
        p == ObjGet(o, "preset", UndefDV)
        start0 == IF TruthyDV(s0) THEN D(startOfDay(s0.n)) ELSE NullD
        end0 == IF TruthyDV(e0) THEN D(endOfDay(e0.n)) ELSE NullD
        range == getPresetDateRange(p, rd)
        start == IF TruthyDV(p) /\ range.start.k # "null" THEN range.start ELSE start0
        end == IF TruthyDV(p) /\ range.end.k # "null" THEN range.end ELSE end0
        dt == dayjs(value, rd)
    IN IF start.k = "null" /\ end.k = "null" THEN TRUE
       ELSE IF dt.k # "date" THEN FALSE
       ELSE IF start.k = "date" /\ dt.t < start.t THEN FALSE
       ELSE IF end.k = "date" /\ dt.t > end.t THEN FALSE
       ELSE TRUE

\* the body of active.every((f) => ...) for one filter definition f
filterTest(f, row, fState, rd) ==
    LET value == row[f.field]
        fs == ObjGet(fState, f.field, UndefFV)
    IN CASE f.type = "select" -> selectTest(fs, value)
         [] f.type = "text" -> textTest(fs, value)
         [] f.type = "date" -> dateTest(fs, value, rd)
         [] OTHER -> TRUE

\* a variant that keeps a row when any one filter passes
rowTest_AnyFilter(row, i, filtersCfg, fState, clk) ==
    \E j \in 1..Len(filtersCfg) :
        filterTest(filtersCfg[j], row, fState, ReadsAt(clk, i, j, Len(filtersCfg)))

rowTest(row, i, filtersCfg, fState, clk) ==
    \A j \in 1..Len(filtersCfg) :
        filterTest(filtersCfg[j], row, fState, ReadsAt(clk, i, j, Len(filtersCfg)))

RECURSIVE filterFrom(_, _, _, _, _)
filterFrom(rows, i, filtersCfg, fState, clk) ==
    IF i > Len(rows) THEN <<>>
    ELSE (IF rowTest(rows[i], i, filtersCfg, fState, clk) THEN <<rows[i]>> ELSE <<>>)
         \o filterFrom(rows, i + 1, filtersCfg, fState, clk)

applyClientFilters(rows, filtersCfg, fState, clk) ==
    filterFrom(rows, 1, filtersCfg, fState, clk)

-----------------------------------------------------------------------------
(* JSON.stringify of the effect's dependencies *)

\* own properties whose value is undefined are left out
RECURSIVE DropUndefined(_)
DropUndefined(o) ==
    IF o = <<>> THEN <<>>
    ELSE IF Head(o).val.k = "undef" THEN DropUndefined(Tail(o))
    ELSE <<Head(o)>> \o DropUndefined(Tail(o))

stringifyValue(v) == IF v.k = "obj" THEN ObjFV(DropUndefined(v.o)) ELSE v

stringifyFilters(fState) ==
    LET kept == DropUndefined(fState)
    IN [i \in 1..Len(kept) |-> [key |-> kept[i].key, val |-> stringifyValue(kept[i].val)]]

stringifyPagination(pg) == <<pg.pageIndex, pg.pageSize>>

stringifySorting(so) == so

\* the transform function is left out
stringifyDataSource(ds) == [mode |-> ds.mode, url |-> ds.url, mockData |-> ds.mockData]

\* a variant that compares the state objects themselves
effectDeps_Unserialized(cfg, fState, pg, so) ==
    <<fState, pg, so, cfg.dataSource, cfg.server.filtering, cfg.server.pagination,
      cfg.server.sorting>>

effectDeps(cfg, fState, pg, so) ==
    <<stringifyFilters(fState), stringifyPagination(pg), stringifySorting(so),
      stringifyDataSource(cfg.dataSource), cfg.server.filtering,
      cfg.server.pagination, cfg.server.sorting>>

-----------------------------------------------------------------------------
(* The request URL of an API fetch: its search parameters, in order *)

RECURSIVE join(_)
join(a) ==
    IF a = <<>> THEN <<>>
    ELSE IF Len(a) = 1 THEN a[1]
    ELSE a[1] \o <<",">> \o join(Tail(a))

filterParams(params, f, fs, rd) ==
    IF ~TruthyFV(fs) THEN params
    ELSE CASE f.type = "select" ->
              LET v == IF fs.k = "arr" THEN join(fs.a) ELSE fs.s
              IN IF v # <<>> THEN ObjSpread(params, f.field, Str(v)) ELSE params
           [] f.type = "text" -> ObjSpread(params, f.field, Str(fs.s))
           [] f.type = "date" ->
              LET p == ObjGet(fs.o, "preset", UndefDV)
                  s0 == ObjGet(fs.o, "start", UndefDV)
                  e0 == ObjGet(fs.o, "end", UndefDV)
                  r == getPresetDateRange(p, rd)
                  start == IF TruthyDV(p)
                           THEN (IF r.start.k = "date" THEN DateStr(r.start.t) ELSE UndefDV)
                           ELSE s0
                  end == IF TruthyDV(p)
                         THEN (IF r.end.k = "date" THEN DateStr(r.end.t) ELSE UndefDV)
                         ELSE e0
                  withFrom == IF TruthyDV(start)
                              THEN ObjSpread(params, f.field \o "From", Iso(start.n))
                              ELSE params
              IN IF TruthyDV(end)
                 THEN ObjSpread(withFrom, f.field \o "To", Iso(end.n))
                 ELSE withFrom
           [] OTHER -> params

RECURSIVE filtersParams(_, _, _, _, _)
filtersParams(params, filtersCfg, j, fState, t) ==
    IF j > Len(filtersCfg) THEN params
    ELSE filtersParams(
             filterParams(params, filtersCfg[j],
                          ObjGet(fState, filtersCfg[j].field, UndefFV),
                          [r \in 1..ReadsPerTest |-> t]),
             filtersCfg, j + 1, fState, t)

requestUrl(cfg, fState, pg, so, t) ==
    LET p1 == IF cfg.server.filtering
              THEN filtersParams(<<>>, cfg.filters, 1, fState, t)
              ELSE <<>>
        p2 == IF cfg.server.sorting /\ so # <<>>
              THEN ObjSpread(ObjSpread(p1, "sortBy", Str(<<so[1].id>>)), "sortDir",
                             Str(IF so[1].desc THEN <<"desc">> ELSE <<"asc">>))
              ELSE p1
    IN IF cfg.server.pagination
       THEN ObjSpread(ObjSpread(p2, "page", Num(pg.pageIndex + 1)), "pageSize",
                      Num(pg.pageSize))
       ELSE p2

-----------------------------------------------------------------------------
(* useConfigurableData: fetchData and the completion of an API fetch *)

NullErr == [isNull |-> TRUE, msg |-> ""]
Err(m) == [isNull |-> FALSE, msg |-> m]

hookVars == <<data, loading, error, inflight, started, applied, failed>>

\* fetchData up to its first await, called with the state of the render whose
\* effect runs it
fetchData(cfg, fState, pg, so, t) ==
    LET ds == cfg.dataSource
    IN /\ started' = started + 1
       /\ error' = NullErr
       /\ IF ds.mode = "mock"
          THEN /\ data' = ds.mockData
               /\ loading' = FALSE
               /\ inflight' = inflight
          ELSE /\ data' = data
               /\ loading' = TRUE
               /\ inflight' = inflight \cup
                      {[url |-> requestUrl(cfg, fState, pg, so, t),
                        id |-> started + 1,
                        transform |-> ds.transform]}
       /\ UNCHANGED <<applied, failed>>

\* the useEffect of the hook: fetchData runs when a dependency changed
useEffect(cfg, fState, pg, so, t) ==
    IF effectDeps(cfg, fState, pg, so) # effectDeps(config, filtersState, pagination, sorting)
    THEN started < MaxFetches /\ fetchData(cfg, fState, pg, so, t)
    ELSE UNCHANGED hookVars

\* a response body, parsed: a bare array, {data: rows}, {items: rows} or null
Payload(shape, rows) == [rows |-> rows, shape |-> shape]

Thrown(m) == [rows |-> <<>>, msg |-> m, throws |-> TRUE, isArray |-> FALSE]
Value(isArray, rows) == [rows |-> rows, msg |-> "", throws |-> FALSE, isArray |-> isArray]

\* ds.transform ? ds.transform(payload) : payload?.data || payload || []
rowsOf(transform, payload) ==
    CASE transform = "none" ->
           (CASE payload.shape \in {"array", "data"} -> Value(TRUE, payload.rows)
              [] payload.shape = "null" -> Value(TRUE, <<>>)
              [] OTHER -> Value(FALSE, <<>>))
      [] transform = "items" ->
           (CASE payload.shape = "items" -> Value(TRUE, payload.rows)
              [] payload.shape = "null" -> Thrown("Cannot read properties of null")
              [] OTHER -> Value(FALSE, <<>>))
      [] OTHER -> Thrown("")

\* what the try block comes to after the await of fetch
outcome(req, resp) ==
    CASE resp.kind = "network" -> Thrown("Failed to fetch")
      [] resp.kind = "http" -> Thrown("HTTP 500")
      [] resp.kind = "badjson" -> Thrown("Unexpected token")
      [] OTHER -> rowsOf(req.transform, resp.payload)

\* a variant that clears the rows in the catch block
complete_ClearsRows(req, resp) ==
    LET r == outcome(req, resp)
    IN /\ inflight' = inflight \ {req}
       /\ loading' = FALSE
       /\ started' = started
       /\ IF r.throws
          THEN /\ error' = Err(IF r.msg # "" THEN r.msg ELSE "Error")
               /\ data' = <<>>
               /\ failed' = failed \cup {[id |-> req.id, after |-> Len(applied)]}
               /\ applied' = applied
               /\ UNCHANGED <<now, tickAt>>
          ELSE /\ data' = (IF r.isArray THEN r.rows ELSE <<>>)
               /\ error' = error
               /\ applied' = Append(applied, [rows |-> IF r.isArray THEN r.rows ELSE <<>>,
                                               url |-> req.url,
                                               id |-> req.id])
               /\ failed' = failed
               /\ now' = clock
               /\ tickAt' = 0

\* a variant that drops the response of a fetch that is not the latest one
complete_DropsStale(req, resp) ==
    LET r == outcome(req, resp)
    IN /\ inflight' = inflight \ {req}
       /\ started' = started
       /\ IF req.id # started
          THEN UNCHANGED <<loading, error, data, failed, applied, now, tickAt>>
          ELSE /\ loading' = FALSE
               /\ IF r.throws
                  THEN /\ error' = Err(IF r.msg # "" THEN r.msg ELSE "Error")
                       /\ data' = data
                       /\ failed' = failed \cup {[id |-> req.id, after |-> Len(applied)]}
                       /\ applied' = applied
                       /\ UNCHANGED <<now, tickAt>>
                  ELSE /\ data' = (IF r.isArray THEN r.rows ELSE <<>>)
                       /\ error' = error
                       /\ applied' = Append(applied,
                                             [rows |-> IF r.isArray THEN r.rows ELSE <<>>,
                                              url |-> req.url,
                                              id |-> req.id])
                       /\ failed' = failed
                       /\ now' = clock
                       /\ tickAt' = 0

\* fetchData from the await of fetch on, for the fetch req and its response
complete(req, resp) ==
    LET r == outcome(req, resp)
    IN /\ inflight' = inflight \ {req}
       /\ loading' = FALSE
       /\ started' = started
       /\ IF r.throws
          THEN /\ error' = Err(IF r.msg # "" THEN r.msg ELSE "Error")
               /\ data' = data
               /\ failed' = failed \cup {[id |-> req.id, after |-> Len(applied)]}
               /\ applied' = applied
               /\ UNCHANGED <<now, tickAt>>
          ELSE /\ data' = (IF r.isArray THEN r.rows ELSE <<>>)
               /\ error' = error
               /\ applied' = Append(applied, [rows |-> IF r.isArray THEN r.rows ELSE <<>>,
                                               url |-> req.url,
                                               id |-> req.id])
               /\ failed' = failed
               /\ now' = clock
               /\ tickAt' = 0

-----------------------------------------------------------------------------
(* The export serializers *)

\* r[key] of a row object: undefined when the row has no such property
rowGet(r, key) == IF key \in DOMAIN r THEN r[key] ELSE Undefined

\* s.replaceAll('"', '""')
RECURSIVE replaceAll(_)
replaceAll(s) ==
    IF s = <<>> THEN <<>>
    ELSE (IF Head(s) = "\"" THEN <<"\"", "\"">> ELSE <<Head(s)>>) \o replaceAll(Tail(s))

\* parts.join(sep) of an array of strings
RECURSIVE joinWith(_, _)
joinWith(parts, sep) ==
    IF parts = <<>> THEN <<>>
    ELSE IF Len(parts) = 1 THEN parts[1]
    ELSE parts[1] \o sep \o joinWith(Tail(parts), sep)

Column(accessorKey, header) == [accessorKey |-> accessorKey, header |-> header]

\* the cell of row r under column c
csvCell(r, c) ==
    LET v == rowGet(r, c.accessorKey)
        cell == IF v.k \in {"null", "undef"} THEN <<>> ELSE replaceAll(JsString(v))
    IN <<"\"">> \o cell \o <<"\"">>

toCSV(rows, columns) ==
    LET headers == [i \in 1..Len(columns) |-> columns[i].header]
        lines == [j \in 1..Len(rows) |->
                     joinWith([i \in 1..Len(columns) |-> csvCell(rows[j], columns[i])],
                              <<",">>)]
    IN joinWith(<<joinWith(headers, <<",">>)>> \o lines, <<"\n">>)

\* qbField.split(".")
RECURSIVE split(_)
split(s) ==
    IF \A i \in 1..Len(s) : s[i] # "." THEN <<s>>
    ELSE LET dot == CHOOSE i \in 1..Len(s) :
                        s[i] = "." /\ \A j \in 1..(i - 1) : s[j] # "."
         IN <<SubSeq(s, 1, dot - 1)>> \o split(SubSeq(s, dot + 1, Len(s)))

\* The object under construction is the set of its properties at every depth:
\* the path of each and its value, a scalar or the object marker.
Object == [k |-> "object", s |-> <<>>, n |-> 0]

IsPrefix(p, q) == Len(p) <= Len(q) /\ SubSeq(q, 1, Len(p)) = p

\* the value read at a path: undefined when no property is there
treeGet(out, path) ==
    IF \E e \in out : e.path = path
    THEN (CHOOSE e \in out : e.path = path).val
    ELSE Undefined

\* the assignment of a property: what hung below its old value goes with it
treeSet(out, path, val) ==
    {e \in out : ~IsPrefix(path, e.path)} \cup {[val |-> val, path |-> path]}

NoThrow(out) == [out |-> out, threw |-> FALSE]
TypeError == [out |-> {}, threw |-> TRUE]

\* path.forEach of one mapping entry, from segment idx on, cursor being the
\* value at the path cur.  The file is an ES module, so its code is strict: an
\* assignment to a property of a primitive value throws a TypeError.
RECURSIVE walk(_, _, _, _, _)
walk(out, path, idx, cur, v) ==
    LET cursor == IF cur = <<>> THEN Object ELSE treeGet(out, cur)
        here == Append(cur, path[idx])
    IN IF cursor.k # "object" THEN TypeError
       ELSE IF idx = Len(path) THEN NoThrow(treeSet(out, here, v))
       ELSE IF Truthy(treeGet(out, here)) THEN walk(out, path, idx + 1, here, v)
       ELSE walk(treeSet(out, here, Object), path, idx + 1, here, v)

\* Object.entries(mapping).forEach over one row, from entry i on
RECURSIVE mapRow(_, _, _, _)
mapRow(r, mapping, i, out) ==
    IF i > Len(mapping) THEN NoThrow(out)
    ELSE LET step == walk(out, split(mapping[i].qbField), 1, <<>>,
                          rowGet(r, mapping[i].field))
         IN IF step.threw THEN TypeError
            ELSE mapRow(r, mapping, i + 1, step.out)

\* the objects handed to JSON.stringify, or the exception that ends the export
RECURSIVE mapRows(_, _, _)
mapRows(rows, mapping, j) ==
    IF j > Len(rows) THEN [threw |-> FALSE, mapped |-> <<>>]
    ELSE LET one == mapRow(rows[j], mapping, 1, {})
             rest == mapRows(rows, mapping, j + 1)
         IN IF one.threw \/ rest.threw THEN [threw |-> TRUE, mapped |-> <<>>]
            ELSE [threw |-> FALSE, mapped |-> <<one.out>> \o rest.mapped]

exportQuickBooksJSON(rows, mapping) == mapRows(rows, mapping, 1)

-----------------------------------------------------------------------------
(* The configurations, rows and inputs the model runs on *)

\* the first instant of a quarter, and the run's first instant: the last tick
\* of the quarter (and of the day) before it
QuarterStart == 3 * TicksPerYear + QuarterMonths * TicksPerMonth
StartOfRun == QuarterStart - 1
Day(d) == QuarterStart + d * TicksPerDay

Row(status, location, createdAt) ==
    [status |-> status, location |-> location, createdAt |-> createdAt]

\* defaultConfig.filters
DefaultFilters ==
    <<[type |-> "select", field |-> "status"],
      [type |-> "text", field |-> "location"],
      [type |-> "date", field |-> "createdAt"]>>

DataSource(mode, url, transform, mockData) ==
    [mode |-> mode, url |-> url, mockData |-> mockData, transform |-> transform]

Server(filt, sort, pag) ==
    [pagination |-> pag, sorting |-> sort, filtering |-> filt]

Config(ds, server, filters) == [dataSource |-> ds, server |-> server, filters |-> filters]

DefaultPagination == [pageIndex |-> 0, pageSize |-> DefaultPageSize]

NoExport == [type |-> "none", rows |-> <<>>]

NoCsv == [rows |-> <<>>, columns |-> <<>>, done |-> FALSE, text |-> <<>>]
NoPreset == [preset |-> UndefDV, range |-> [start |-> NullD, end |-> NullD],
             done |-> FALSE, at |-> 0]
NoDelivery == [req |-> [url |-> <<>>, id |-> 0, transform |-> "none"],
               resp |-> [payload |-> Payload("null", <<>>), kind |-> "none"]]
NoQb == [rows |-> <<>>, threw |-> FALSE, mapping |-> <<>>, mapped |-> <<>>, done |-> FALSE]

\* the state of a page that was constructed and has not run its first effect
Constructed(cfg) ==
    /\ config = cfg
    /\ filtersState = <<>>
    /\ pagination = DefaultPagination
    /\ sorting = <<>>
    /\ data = <<>>
    /\ loading = FALSE
    /\ error = NullErr
    /\ inflight = {}
    /\ started = 0
    /\ applied = <<>>
    /\ failed = {}
    /\ rowSelection = {}
    /\ exported = NoExport
    /\ clock = StartOfRun
    /\ now = StartOfRun
    /\ tickAt = 0

-----------------------------------------------------------------------------
(* The page: its derived values *)

\* the useMemo of filteredData, computed by the pass that started at now
filteredData ==
    IF config.server.filtering THEN data
    ELSE applyClientFilters(data, config.filters, filtersState,
                            [now |-> now, tickAt |-> tickAt])

\* table.getSelectedRowModel().flatRows.map((r) => r.original)
selectedRows ==
    LET shown == filteredData
        idx == SeqFilter([i \in 1..Len(shown) |-> i], rowSelection)
    IN [i \in 1..Len(idx) |-> shown[idx[i]]]

sanitizeRowForExport(row) ==
    [f \in DOMAIN row |-> IF row[f].k = "jsdate" THEN Str(<<"d">>) ELSE row[f]]

\* a variant that never looks at the selection
rowsForExport_FilteredOnly ==
    [i \in 1..Len(filteredData) |-> sanitizeRowForExport(filteredData[i])]

rowsForExport ==
    LET selected == selectedRows
        rows == IF Len(selected) # 0 THEN selected ELSE filteredData
    IN [i \in 1..Len(rows) |-> sanitizeRowForExport(rows[i])]

ExportTypes == {"csv", "excel", "pdf", "quickbooks", "fmcsa"}

-----------------------------------------------------------------------------
(* The page: its operations.  k is the clock read at which the clock advances *)
(* while the pass that follows the operation runs (0: it does not).           *)

pageVars == <<config, filtersState, pagination, sorting, rowSelection, exported>>
pureVars == <<csvCall, qbCall, presetCall, delivered>>

\* a pass that computes filteredData anew
memo(k) ==
    /\ k # 0 => clock < StartOfRun + MaxTicks
    /\ now' = clock
    /\ tickAt' = k
    /\ clock' = IF k = 0 THEN clock ELSE clock + 1

\* the first render and its effect
Mount ==
    /\ started = 0
    /\ fetchData(config, filtersState, pagination, sorting, clock)
    /\ UNCHANGED <<pageVars, clock, now, tickAt, pureVars>>

setFiltersState(fState, k) ==
    /\ started > 0
    /\ filtersState' = fState
    /\ memo(k)
    /\ useEffect(config, fState, pagination, sorting, clock')
    /\ UNCHANGED <<config, pagination, sorting, rowSelection, exported, pureVars>>

handleSelect(field, value, k) ==
    setFiltersState(ObjSpread(filtersState, field, value), k)

handleText(field, value, k) ==
    setFiltersState(ObjSpread(filtersState, field, value), k)

\* s[field] || {}
dateObject(field) ==
    LET old == ObjGet(filtersState, field, UndefFV)
    IN IF TruthyFV(old) THEN old.o ELSE <<>>

handleDatePreset(field, preset, k) ==
    setFiltersState(
        ObjSpread(filtersState, field, ObjFV(ObjSpread(dateObject(field), "preset", preset))),
        k)

handleDateStart(field, value, k) ==
    setFiltersState(
        ObjSpread(filtersState, field, ObjFV(ObjSpread(dateObject(field), "start", value))),
        k)

handleDateEnd(field, value, k) ==
    setFiltersState(
        ObjSpread(filtersState, field, ObjFV(ObjSpread(dateObject(field), "end", value))),
        k)

clearField(field, k) ==
    setFiltersState(ObjSpread(filtersState, field, UndefFV), k)

setPagination(pg) ==
    /\ started > 0
    /\ pagination' = pg
    /\ useEffect(config, filtersState, pg, sorting, clock)
    /\ UNCHANGED <<config, filtersState, sorting, rowSelection, exported, clock, now,
                   tickAt, pureVars>>

setSorting(so) ==
    /\ started > 0
    /\ sorting' = so
    /\ useEffect(config, filtersState, pagination, so, clock)
    /\ UNCHANGED <<config, filtersState, pagination, rowSelection, exported, clock, now,
                   tickAt, pureVars>>

\* the parent renders the page with another config object
setConfig(cfg) ==
    /\ started > 0
    /\ config' = cfg
    /\ memo(0)
    /\ useEffect(cfg, filtersState, pagination, sorting, clock)
    /\ UNCHANGED <<filtersState, pagination, sorting, rowSelection, exported, pureVars>>

\* the response of an API fetch arrives
Respond(req, resp) ==
    /\ req \in inflight
    /\ complete(req, resp)
    /\ UNCHANGED <<pageVars, clock, pureVars>>

Tick ==
    /\ clock < StartOfRun + MaxTicks
    /\ clock' = clock + 1
    /\ UNCHANGED <<pageVars, hookVars, now, tickAt, pureVars>>

toggleRow(i) ==
    /\ started > 0
    /\ i \in 1..Len(filteredData)
    /\ rowSelection' = IF i \in rowSelection THEN rowSelection \ {i}
                       ELSE rowSelection \cup {i}
    /\ UNCHANGED <<config, filtersState, pagination, sorting, exported, hookVars, clock,
                   now, tickAt, pureVars>>

doExport(type) ==
    /\ started > 0
    /\ exported' = IF type \in ExportTypes
                   THEN [type |-> type, rows |-> rowsForExport]
                   ELSE exported
    /\ UNCHANGED <<config, filtersState, pagination, sorting, rowSelection, hookVars,
                   clock, now, tickAt, pureVars>>

-----------------------------------------------------------------------------
(* Spec: the data hook under filter, pagination, sort and config changes,   *)
(* with API fetches whose responses arrive in any order.                    *)

RowA == Row(Str(<<"A">>), Str(<<"a">>), Iso(Day(0)))
RowI == Row(Str(<<"I">>), Str(<<"A", "b">>), Iso(Day(-8)))

MockRows == <<RowA, RowI>>

ApiSource(transform) == DataSource("api", "u", transform, <<>>)
MockSource == DataSource("mock", "", "none", MockRows)

SpecConfigs ==
    {Config(ApiSource("none"), Server(FALSE, FALSE, FALSE), DefaultFilters),
     Config(ApiSource("items"), Server(TRUE, TRUE, TRUE), DefaultFilters),
     Config(MockSource, Server(FALSE, FALSE, FALSE), DefaultFilters)}

SpecSelects == {ArrFV(<<>>), ArrFV(<<<<"A">>, <<"I">>>>)}
SpecTexts == {StrFV(<<" ">>), StrFV(<<"a">>)}
SpecPresets == {UndefDV, Preset("lastNDays", DefaultDays)}
SpecDates == {DateStr(Day(-1))}
SpecPaginations == {DefaultPagination, [pageIndex |-> 1, pageSize |-> DefaultPageSize]}
SpecSortings == {<<>>, <<[id |-> "name", desc |-> TRUE]>>}

Ok(payload) == [payload |-> payload, kind |-> "ok"]
NotOk(kind) == [payload |-> Payload("null", <<>>), kind |-> kind]

SpecResponses ==
    {Ok(Payload("array", <<RowA>>)), Ok(Payload("items", <<RowA, RowI>>)),
     Ok(Payload("null", <<>>)), NotOk("http"), NotOk("network")}

Init ==
    /\ \E cfg \in SpecConfigs : Constructed(cfg)
    /\ csvCall = NoCsv
    /\ qbCall = NoQb
    /\ presetCall = NoPreset
    /\ delivered = NoDelivery

Next ==
    \/ Mount
    \/ \E v \in SpecSelects : handleSelect("status", v, 0)
    \/ \E v \in SpecTexts : handleText("location", v, 0)
    \/ \E v \in SpecPresets : handleDatePreset("createdAt", v, 0)
    \/ \E v \in SpecDates : handleDateStart("createdAt", v, 0)
    \/ \E v \in SpecDates : handleDateEnd("createdAt", v, 0)
    \/ clearField("createdAt", 0)
    \/ \E pg \in SpecPaginations : setPagination(pg)
    \/ \E so \in SpecSortings : setSorting(so)
    \/ \E cfg \in SpecConfigs : setConfig(cfg)
    \/ \E req \in inflight, resp \in SpecResponses : Respond(req, resp)

Spec == Init /\ [][Next]_vars

-----------------------------------------------------------------------------
(* Claims checked under Spec *)

\* C4: when an API fetch fails, the error state becomes a non-empty message
\* and the row set is left as it was; the row set changes only in a step in
\* which a fetch succeeds (a response is applied, or a mock fetch ran).
C4_FailureKeepsRows ==
    [][/\ failed' # failed =>
            /\ ~error'.isNull
            /\ error'.msg # ""
            /\ data' = data
       /\ data' # data =>
            \/ Len(applied') = Len(applied) + 1
            \/ started' = started + 1 /\ config'.dataSource.mode = "mock"]_vars

\* a fetch failed after rows had been loaded, and the rows are still there
C4_Witness ==
    /\ \E f \in failed : f.after = Len(applied) /\ f.after > 0
    /\ ~error.isNull
    /\ data # <<>>
    /\ data = applied[Len(applied)].rows

\* C5: starting a fetch cancels no fetch in flight, and the response of a
\* fetch in flight is applied when it arrives, also when a later fetch was
\* started or has already been answered: a fetch leaves the set of fetches in
\* flight only by failing or by its rows becoming the row set.
C5_LateResponseApplied ==
    [][\A req \in inflight :
          \/ req \in inflight'
          \/ \E f \in failed' \ failed : f.id = req.id
          \/ /\ Len(applied') = Len(applied) + 1
             /\ applied'[Len(applied')].id = req.id
             /\ data' = applied'[Len(applied')].rows]_vars

\* fetch A started, fetch B started with other inputs, B's response was
\* applied, then A's: the row set holds A's rows, not B's
C5_Witness ==
    /\ Len(applied) = 2
    /\ applied[1].id > applied[2].id
    /\ applied[1].url # applied[2].url
    /\ data = applied[2].rows
    /\ data # applied[1].rows
    /\ inflight = {}

\* the four serialized values of C6
C6_Serialized(cfg, fState, pg, so) ==
    <<stringifyFilters(fState), stringifyPagination(pg), stringifySorting(so),
      stringifyDataSource(cfg.dataSource)>>

\* C6: on a mounted page, every change of the serialized filter state,
\* pagination state, sort state or data-source spec starts a fetch, and a
\* state update that changes none of them, nor a server flag, starts none.
C6_RefetchOnSerializedChange ==
    [][started > 0 =>
         /\ C6_Serialized(config', filtersState', pagination', sorting')
              # C6_Serialized(config, filtersState, pagination, sorting)
            => started' = started + 1
         /\ (/\ C6_Serialized(config', filtersState', pagination', sorting')
                  = C6_Serialized(config, filtersState, pagination, sorting)
             /\ config'.server = config.server)
            => started' = started]_vars

\* the filter state object was replaced by one with the same serialized value
\* (a cleared field that was never set), and only the mount's fetch has run
C6_Witness ==
    /\ started = 1
    /\ filtersState # <<>>
    /\ stringifyFilters(filtersState) = <<>>

\* the search parameters of a request that come from filters
C7_FilterParams(url) ==
    {p \in Range(url) : p.key \notin {"sortBy", "sortDir", "page", "pageSize"}}

C7_Param(key, val) == [key |-> key, val |-> val]

\* what C7 expects of one filter definition and its state
C7_Expected(f, fs) ==
    CASE f.type = "select" ->
           IF fs.k = "arr" /\ fs.a # <<>> THEN {C7_Param(f.field, Str(join(fs.a)))}
           ELSE IF fs.k = "str" /\ fs.s # <<>> THEN {C7_Param(f.field, Str(fs.s))}
           ELSE {}
      [] f.type = "text" ->
           IF fs.k = "str" /\ trim(fs.s) # <<>> THEN {C7_Param(f.field, Str(fs.s))}
           ELSE {}
      [] f.type = "date" ->
           IF fs.k # "obj" THEN {}
           ELSE LET s0 == ObjGet(fs.o, "start", UndefDV)
                    e0 == ObjGet(fs.o, "end", UndefDV)
                IN (IF TruthyDV(s0) THEN {C7_Param(f.field \o "From", Iso(s0.n))} ELSE {})
                   \cup
                   (IF TruthyDV(e0) THEN {C7_Param(f.field \o "To", Iso(e0.n))} ELSE {})
      [] OTHER -> {}

C7_HasPreset(fState) ==
    LET fs == ObjGet(fState, "createdAt", UndefFV)
    IN fs.k = "obj" /\ TruthyDV(ObjGet(fs.o, "preset", UndefDV))

\* C7: the request of a fetch that starts carries, with server.filtering true,
\* a parameter for exactly the active filters (select: the comma-joined values,
\* text: the string, date with explicit bounds and no preset: From and To), and
\* none for a filter whose state is inactive (absent, empty selection, empty or
\* whitespace-only text, date without bounds); with server.filtering false it
\* carries no filter parameter.
C7_QueryEncoding ==
    [][\A req \in inflight' \ inflight :
          IF ~config'.server.filtering THEN C7_FilterParams(req.url) = {}
          ELSE ~C7_HasPreset(filtersState') =>
                 C7_FilterParams(req.url) =
                   UNION {C7_Expected(config'.filters[j],
                                      ObjGet(filtersState', config'.filters[j].field,
                                             UndefFV)) :
                          j \in 1..Len(config'.filters)}]_vars

\* C15: in every reachable state, when an API fetch has been started and has
\* not yet completed the loading flag is true, whatever the interleaving of
\* overlapping fetches, and the flag is false when no fetch is in flight.
C15_LoadingWhileInflight ==
    /\ inflight # {} => loading
    /\ inflight = {} => ~loading

\* C16: in every reachable state with no fetch in flight, the error state is
\* non-null iff the most recently started fetch failed; an error of an
\* earlier, superseded fetch is never left with the rows of a later fetch
\* that succeeded.
C16_ErrorOfLatestFetch ==
    (inflight = {} /\ started > 0) =>
        (~error.isNull <=> \E f \in failed : f.id = started)

-----------------------------------------------------------------------------
(* SpecView: the page on mock data, under every combination of server      *)
(* flags: filters, row selection and export.                                *)

RowB == Row(Str(<<"A">>), Str(<<"b">>), Iso(Day(-8)))

ViewRows == <<RowA, RowI, RowB>>

ViewSource == DataSource("mock", "", "none", ViewRows)

ViewConfigs ==
    {Config(ViewSource, Server(FALSE, FALSE, FALSE), DefaultFilters),
     Config(ViewSource, Server(TRUE, FALSE, FALSE), DefaultFilters),
     Config(ViewSource, Server(FALSE, TRUE, TRUE), DefaultFilters),
     Config(ViewSource, Server(TRUE, TRUE, TRUE), DefaultFilters)}

ViewSelects == {ArrFV(<<<<"A">>>>), StrFV(<<"I">>)}
ViewTexts == {StrFV(<<"a">>)}
ViewPresets == {Preset("lastNDays", DefaultDays)}

InitView ==
    /\ \E cfg \in ViewConfigs : Constructed(cfg)
    /\ csvCall = NoCsv
    /\ qbCall = NoQb
    /\ presetCall = NoPreset
    /\ delivered = NoDelivery

NextView ==
    \/ Mount
    \/ \E v \in ViewSelects : handleSelect("status", v, 0)
    \/ \E v \in ViewTexts : handleText("location", v, 0)
    \/ \E v \in ViewPresets : handleDatePreset("createdAt", v, 0)
    \/ \E cfg \in ViewConfigs : setConfig(cfg)
    \/ \E i \in 1..Len(ViewRows) : toggleRow(i)
    \/ \E type \in ExportTypes \cup {"xml"} : doExport(type)
    \/ Tick

SpecView == InitView /\ [][NextView]_vars

\* C3: in mock mode the server flags are ignored: whatever the flags, the
\* rows shown, and exported when no row is selected, are the mock rows
\* filtered client-side by the current filter state.
C3_MockIgnoresServerFlags ==
    (started > 0 /\ config.dataSource.mode = "mock") =>
        LET rows == applyClientFilters(config.dataSource.mockData, config.filters,
                                       filtersState, [now |-> now, tickAt |-> tickAt])
        IN /\ filteredData = rows
           /\ selectedRows = <<>> => rowsForExport = rows

\* C8: the rows an export hands to its serializer are the selected rows when
\* a row is selected, and the filtered rows, in their order, when none is.
C8_ExportTargetRows ==
    [][exported' # exported =>
         exported'.rows = (IF selectedRows # <<>> THEN selectedRows ELSE filteredData)]_vars

\* an export ran while some, not all, of the filtered rows were selected
C8_Witness ==
    /\ exported.type \in ExportTypes
    /\ selectedRows # <<>>
    /\ exported.rows = selectedRows
    /\ selectedRows # filteredData
    /\ filteredData # data

-----------------------------------------------------------------------------
(* SpecFilter: applyClientFilters over row lists, filter definitions and    *)
(* filter states, on a mounted page in mock mode with client-side           *)
(* filtering; the clock may advance while a pass runs.                      *)

FilterCfgs ==
    {<<[type |-> "date", field |-> "createdAt"]>>,
     DefaultFilters,
     <<[type |-> "text", field |-> "location"],
       [type |-> "range", field |-> "status"],
       [type |-> "select", field |-> "status"]>>}

FilterRowSet ==
    {RowA, RowI,
     Row(Str(<<"A">>), Str(<<"a">>), Str(<<"x">>)),
     Row(Undefined, Num(0), Undefined),
     Row(Str(<<"I">>), Undefined, Null)}

FilterSelects == {ArrFV(<<>>), StrFV(<<"A">>), ArrFV(<<<<"A">>, <<"I">>>>)}
FilterTexts == {StrFV(<<" ">>), StrFV(<<" ", "A">>)}

Prop(key, val) == [key |-> key, val |-> val]

FilterDateObjects ==
    {<<>>,
     <<Prop("preset", Preset("lastNDays", DefaultDays))>>,
     <<Prop("preset", Preset("quarterToDate", 0))>>,
     <<Prop("preset", Preset("lastNYears", 0))>>,
     <<Prop("preset", Preset("nextWeek", 0))>>,
     <<Prop("start", DateStr(Day(-1)))>>,
     <<Prop("end", DateStr(Day(-1)))>>,
     <<Prop("start", DateStr(Day(-9))), Prop("end", DateStr(Day(-1)))>>,
     <<Prop("preset", Preset("nextWeek", 0)), Prop("start", DateStr(Day(1)))>>,
     <<Prop("preset", UndefDV), Prop("start", EmptyDV)>>}

FilterDates == {UndefFV} \cup {ObjFV(o) : o \in FilterDateObjects}

\* the filter states: each field set once, in the order of the filter panel
FilterStates ==
    {s1 \o s2 \o s3 :
        s1 \in {<<>>} \cup {<<Prop("status", v)>> : v \in FilterSelects},
        s2 \in {<<>>} \cup {<<Prop("location", v)>> : v \in FilterTexts},
        s3 \in {<<>>} \cup {<<Prop("createdAt", v)>> : v \in FilterDates}}

\* the clock reads at which the clock may advance: within the test of the
\* first row against the first filter, or right after it
DriftReads == 0..(ReadsPerTest + 1)

\* the filter states the panel of these filter definitions can produce
FilterStatesOf(filters) ==
    {s \in FilterStates : ObjKeys(s) \subseteq {filters[j].field : j \in 1..Len(filters)}}

InitFilter ==
    /\ \E filters \in FilterCfgs, rows \in SeqsUpTo(FilterRowSet, MaxRows) :
          /\ config = Config(DataSource("mock", "", "none", rows),
                             Server(FALSE, FALSE, FALSE), filters)
          /\ data = rows
          /\ filtersState \in FilterStatesOf(filters)
    /\ pagination = DefaultPagination
    /\ sorting = <<>>
    /\ loading = FALSE
    /\ error = NullErr
    /\ inflight = {}
    /\ started = 1
    /\ applied = <<>>
    /\ failed = {}
    /\ rowSelection = {}
    /\ exported = NoExport
    /\ clock = StartOfRun
    /\ now = StartOfRun
    /\ tickAt = 0
    /\ csvCall = NoCsv
    /\ qbCall = NoQb
    /\ presetCall = NoPreset
    /\ delivered = NoDelivery

NextFilter ==
    \/ \E k \in DriftReads :
          handleDatePreset("createdAt", Preset("quarterToDate", 0), k)
    \/ Tick

SpecFilter == InitFilter /\ [][NextFilter]_vars

PassClock == [now |-> now, tickAt |-> tickAt]

\* whether the state of filter definition f is active, as C1 reads it
C1_Active(f, fs) ==
    CASE f.type = "select" -> (fs.k = "str" /\ fs.s # <<>>) \/ (fs.k = "arr" /\ fs.a # <<>>)
      [] f.type = "text" -> fs.k = "str" /\ trim(fs.s) # <<>>
      [] f.type = "date" ->
           /\ fs.k = "obj"
           /\ \/ TruthyDV(ObjGet(fs.o, "start", UndefDV))
              \/ TruthyDV(ObjGet(fs.o, "end", UndefDV))
              \/ ObjGet(fs.o, "preset", UndefDV).type
                   \in {"lastNDays", "quarterToDate", "lastNYears"}
      [] OTHER -> FALSE

C1_ActiveFilters ==
    {j \in 1..Len(config.filters) :
        C1_Active(config.filters[j],
                  ObjGet(filtersState, config.filters[j].field, UndefFV))}

\* the rows of the row list that pass every active filter, by index
C1_Passing ==
    {i \in 1..Len(data) :
        \A j \in C1_ActiveFilters :
            filterTest(config.filters[j], data[i], filtersState,
                       ReadsAt(PassClock, i, j, Len(config.filters)))}

\* C1: with client-side filtering the rows shown are exactly the rows that
\* pass every filter whose state is active, in their input order (filters of
\* an unknown type and inactive filters exclude nothing); with no active
\* filter they are the input rows.
C1_ClientFilterConjunction ==
    (started > 0 /\ ~config.server.filtering) =>
        LET idx == SeqFilter([i \in 1..Len(data) |-> i], C1_Passing)
        IN /\ filteredData = [n \in 1..Len(idx) |-> data[idx[n]]]
           /\ C1_ActiveFilters = {} => filteredData = data

\* two filters are active, one of an unknown type is configured, and some
\* rows, not all, pass
C1_Witness ==
    /\ Cardinality(C1_ActiveFilters) >= 2
    /\ \E j \in 1..Len(config.filters) : config.filters[j].type = "range"
    /\ filteredData # <<>>
    /\ Len(filteredData) < Len(data)
    /\ ~config.server.filtering

C2_Unparseable(v) == v.k \in {"str", "null", "undef"}

\* whether the date filter state has an effective bound for the reads rd
C2_HasBound(fs, rd) ==
    /\ fs.k = "obj"
    /\ LET p == ObjGet(fs.o, "preset", UndefDV)
           r == getPresetDateRange(p, rd)
       IN \/ TruthyDV(ObjGet(fs.o, "start", UndefDV))
          \/ TruthyDV(ObjGet(fs.o, "end", UndefDV))
          \/ TruthyDV(p) /\ (r.start.k = "date" \/ r.end.k = "date")

\* C2: a row whose date field is not a parseable date (a malformed string,
\* null, or missing) is excluded from the rows shown whenever the date filter
\* has an effective bound, and passes the date filter when it has none.
C2_DateStrictness ==
    (started > 0 /\ ~config.server.filtering) =>
        \A i \in 1..Len(data), j \in 1..Len(config.filters) :
            LET f == config.filters[j]
                rd == ReadsAt(PassClock, i, j, Len(config.filters))
                fs == ObjGet(filtersState, f.field, UndefFV)
            IN (f.type = "date" /\ C2_Unparseable(data[i][f.field])) =>
                  IF C2_HasBound(fs, rd)
                  THEN ~rowTest(data[i], i, config.filters, filtersState, PassClock)
                  ELSE filterTest(f, data[i], filtersState, rd)

\* the bounds getPresetDateRange resolves when row i is tested against the
\* date filter j whose state carries the preset
C13_Bounds(i, j) ==
    getPresetDateRange(
        ObjGet(ObjGet(filtersState, config.filters[j].field, UndefFV).o, "preset", UndefDV),
        ReadsAt(PassClock, i, j, Len(config.filters)))

\* the date filters whose state carries a preset
C13_PresetFilters ==
    {j \in 1..Len(config.filters) :
        /\ config.filters[j].type = "date"
        /\ ObjGet(filtersState, config.filters[j].field, UndefFV).k = "obj"
        /\ TruthyDV(ObjGet(ObjGet(filtersState, config.filters[j].field, UndefFV).o,
                           "preset", UndefDV))}

\* C13: within one filtering pass with a preset date filter every row is
\* tested against the same resolved start / end bounds, also when the clock
\* advances while the pass runs, and the bounds of one resolution satisfy
\* start <= end.
C13_StablePresetBounds ==
    (started > 0 /\ ~config.server.filtering) =>
        \A j \in C13_PresetFilters, i \in 1..Len(data) :
            /\ C13_Bounds(i, j) = C13_Bounds(1, j)
            /\ (C13_Bounds(i, j).start.k = "date" /\ C13_Bounds(i, j).end.k = "date") =>
                  C13_Bounds(i, j).start.t <= C13_Bounds(i, j).end.t

-----------------------------------------------------------------------------
(* SpecCSV: toCSV over row lists and column lists whose cells and headers   *)
(* hold commas, quotes, line breaks and empty values.                       *)

CsvRow(name, note) == [name |-> name, note |-> note]

CsvRows ==
    {CsvRow(Str(<<"a">>), Null),
     CsvRow(Str(<<"A", ",", " ", "\"", "B", "\"">>), Undefined),
     CsvRow(Num(12), Str(<<"x", "\n", "y">>)),
     CsvRow(Bool(TRUE), Str(<<>>)),
     CsvRow(Str(<<"\"">>), Num(0))}

CsvColumns ==
    {Column("name", <<"N", "a", "m", "e">>),
     Column("note", <<"N", "o", "t", "e", ",", " ", "f", "u", "l", "l">>),
     Column("gone", <<"G">>)}

CsvColumnLists == SeqsUpTo(CsvColumns, MaxColumns) \ {<<>>}

InitCSV ==
    /\ Constructed(Config(MockSource, Server(FALSE, FALSE, FALSE), DefaultFilters))
    /\ \E rows \in SeqsUpTo(CsvRows, MaxRows), columns \in CsvColumnLists :
           csvCall = [rows |-> rows, columns |-> columns, done |-> FALSE, text |-> <<>>]
    /\ qbCall = NoQb
    /\ presetCall = NoPreset
    /\ delivered = NoDelivery

\* the call toCSV(rows, columns) of doExport("csv")
callToCSV ==
    /\ ~csvCall.done
    /\ csvCall' = [csvCall EXCEPT !.done = TRUE,
                                  !.text = toCSV(csvCall.rows, csvCall.columns)]
    /\ UNCHANGED <<pageVars, hookVars, clock, now, tickAt, qbCall, presetCall, delivered>>

NextCSV == callToCSV

SpecCSV == InitCSV /\ [][NextCSV]_vars

\* A reader of CSV text by the standard rules: fields are separated by commas
\* and records by line breaks; a field that opens with a double quote runs to
\* its closing quote, a doubled quote inside it standing for one quote.
C9_Field(val, quoted) == [val |-> val, quoted |-> quoted]

RECURSIVE C9_Scan(_, _, _, _, _, _, _)
C9_Scan(text, i, mode, val, quoted, rec, recs) ==
    IF i > Len(text) THEN Append(recs, Append(rec, C9_Field(val, quoted)))
    ELSE IF mode = "quoted"
    THEN IF text[i] # "\""
         THEN C9_Scan(text, i + 1, "quoted", Append(val, text[i]), TRUE, rec, recs)
         ELSE IF i < Len(text) /\ text[i + 1] = "\""
         THEN C9_Scan(text, i + 2, "quoted", Append(val, "\""), TRUE, rec, recs)
         ELSE C9_Scan(text, i + 1, "closed", val, TRUE, rec, recs)
    ELSE IF text[i] = ","
    THEN C9_Scan(text, i + 1, "start", <<>>, FALSE,
                 Append(rec, C9_Field(val, quoted)), recs)
    ELSE IF text[i] = "\n"
    THEN C9_Scan(text, i + 1, "start", <<>>, FALSE, <<>>,
                 Append(recs, Append(rec, C9_Field(val, quoted))))
    ELSE IF text[i] = "\"" /\ mode = "start"
    THEN C9_Scan(text, i + 1, "quoted", <<>>, TRUE, rec, recs)
    ELSE C9_Scan(text, i + 1, "plain", Append(val, text[i]), quoted, rec, recs)

C9_Parse(text) == C9_Scan(text, 1, "start", <<>>, FALSE, <<>>, <<>>)

C9_Values(rec) == [i \in 1..Len(rec) |-> rec[i].val]

\* the stringified cell values of a row, in column order
C9_Cells(r, columns) ==
    [i \in 1..Len(columns) |->
        LET v == rowGet(r, columns[i].accessorKey)
        IN IF v.k \in {"null", "undef"} THEN <<>> ELSE JsString(v)]

\* the body of the text read back: one record per row, of the row's cells, each quoted
C9_BodyReadsBack ==
    LET recs == C9_Parse(csvCall.text)
    IN /\ Len(recs) = 1 + Len(csvCall.rows)
       /\ \A j \in 1..Len(csvCall.rows) :
              /\ C9_Values(recs[j + 1]) = C9_Cells(csvCall.rows[j], csvCall.columns)
              /\ \A i \in 1..Len(recs[j + 1]) : recs[j + 1][i].quoted

\* C9: the text of toCSV, read by the standard CSV rules, is one header
\* record whose fields are the column headers, followed by one record per
\* row whose fields are the row's stringified cells in column order (null
\* and undefined as the empty string), every body cell quoted.
C9_CsvRoundTrip ==
    csvCall.done =>
        /\ C9_BodyReadsBack
        /\ C9_Values(C9_Parse(csvCall.text)[1])
               = [i \in 1..Len(csvCall.columns) |-> csvCall.columns[i].header]

-----------------------------------------------------------------------------
(* SpecQB: exportQuickBooksJSON over rows and field-to-path mappings, paths  *)
(* that are prefixes of one another among them.                             *)

QbEntry(field, qbField) == [field |-> field, qbField |-> qbField]

QbFields == {"status", "createdAt"}

QbPaths ==
    {<<"A">>, <<"M">>, <<"M", ".", "C">>, <<"M", ".", "C", ".", "T">>}

QbEntries == {QbEntry(f, p) : f \in QbFields, p \in QbPaths}

\* a mapping is an object, so each field is named once; no two fields are
\* mapped to the same path
QbMappings ==
    {m \in SeqsUpTo(QbEntries, MaxMapping) :
        \A i, j \in 1..Len(m) :
            i # j => m[i].field # m[j].field /\ m[i].qbField # m[j].qbField}

QbRows ==
    {Row(Str(<<"x">>), Str(<<"y">>), Iso(Day(0))),
     Row(Num(0), Str(<<"y">>), Null),
     Row(Undefined, Undefined, Str(<<>>))}

InitQB ==
    /\ Constructed(Config(MockSource, Server(FALSE, FALSE, FALSE), DefaultFilters))
    /\ csvCall = NoCsv
    /\ presetCall = NoPreset
    /\ delivered = NoDelivery
    /\ \E rows \in SeqsUpTo(QbRows, MaxRows), mapping \in QbMappings :
           qbCall = [rows |-> rows, threw |-> FALSE, mapping |-> mapping,
                     mapped |-> <<>>, done |-> FALSE]

\* the call exportQuickBooksJSON(rows, mapping) of doExport("quickbooks")
callExportQuickBooksJSON ==
    /\ ~qbCall.done
    /\ LET r == exportQuickBooksJSON(qbCall.rows, qbCall.mapping)
       IN qbCall' = [qbCall EXCEPT !.done = TRUE, !.threw = r.threw,
                                   !.mapped = r.mapped]
    /\ UNCHANGED <<pageVars, hookVars, clock, now, tickAt, csvCall, presetCall, delivered>>

NextQB == callExportQuickBooksJSON

SpecQB == InitQB /\ [][NextQB]_vars

\* C10: the export never throws, and it produces one object per row that
\* holds, at each mapped dotted path, the value of the mapped source field
\* and holds no value anywhere else.
C10_QuickBooksMapping ==
    qbCall.done =>
        /\ ~qbCall.threw
        /\ Len(qbCall.mapped) = Len(qbCall.rows)
        /\ \A j \in 1..Len(qbCall.mapped) :
               LET paths == {<<split(qbCall.mapping[i].qbField), qbCall.mapping[i].field>> :
                                i \in 1..Len(qbCall.mapping)}
               IN /\ \A p \in paths :
                         treeGet(qbCall.mapped[j], p[1]) = rowGet(qbCall.rows[j], p[2])
                  /\ \A e \in qbCall.mapped[j] :
                         e.val.k # "object" => \E p \in paths : p[1] = e.path

-----------------------------------------------------------------------------
(* SpecPreset: getPresetDateRange at a fixed moment, over every moment of a  *)
(* year and presets of every type, with n from 0 (or absent) on.            *)

PresetTypes == {"lastNDays", "quarterToDate", "lastNYears", "nextWeek"}

PresetInputs == {UndefDV} \cup {Preset(type, n) : type \in PresetTypes, n \in 0..MaxPresetN}

PresetMoments == (3 * TicksPerYear)..(4 * TicksPerYear - 1)

InitPreset ==
    /\ Constructed(Config(MockSource, Server(FALSE, FALSE, FALSE), DefaultFilters))
    /\ csvCall = NoCsv
    /\ qbCall = NoQb
    /\ delivered = NoDelivery
    /\ \E preset \in PresetInputs, at \in PresetMoments :
           presetCall = [preset |-> preset, range |-> [start |-> NullD, end |-> NullD],
                         done |-> FALSE, at |-> at]

\* a call getPresetDateRange(preset) during which the clock stands still
callGetPresetDateRange ==
    /\ ~presetCall.done
    /\ presetCall' =
           [presetCall EXCEPT
               !.done = TRUE,
               !.range = getPresetDateRange(presetCall.preset,
                                            [r \in 1..ReadsPerTest |-> presetCall.at])]
    /\ UNCHANGED <<pageVars, hookVars, clock, now, tickAt, csvCall, qbCall, delivered>>

NextPreset == callGetPresetDateRange

SpecPreset == InitPreset /\ [][NextPreset]_vars

\* the range C11 states for a preset at the moment t (for quarterToDate it
\* states the start only)
C11_Range(preset, t) ==
    CASE preset.k = "preset" /\ preset.type = "lastNDays" ->
           [start |-> D((t - (t % TicksPerDay)) - (preset.n - 1) * TicksPerDay),
            end |-> D((t - (t % TicksPerDay)) + TicksPerDay - 1)]
      [] preset.k = "preset" /\ preset.type = "lastNYears" ->
           [start |-> D((t - (t % TicksPerDay)) - preset.n * TicksPerYear),
            end |-> D((t - (t % TicksPerDay)) + TicksPerDay - 1)]
      [] preset.k = "preset" /\ preset.type = "quarterToDate" ->
           [start |-> D(t - (t % (QuarterMonths * TicksPerMonth))),
            end |-> presetCall.range.end]
      [] OTHER -> [start |-> NullD, end |-> NullD]

\* C11: at a fixed moment and for every n >= 0, lastNDays(n) starts at the
\* beginning of the day n - 1 days before now and ends at the end of today,
\* lastNYears(n) starts at the beginning of the day n years before now with
\* the same end, quarterToDate starts at the beginning of the first month of
\* the current quarter (month 0, 3, 6 or 9), and an unknown or absent preset
\* type has both bounds null.
C11_PresetRanges ==
    presetCall.done =>
        /\ presetCall.range = C11_Range(presetCall.preset, presetCall.at)
        /\ (presetCall.preset.k = "preset" /\ presetCall.preset.type = "quarterToDate")
              => monthOf(presetCall.range.start.t) \in {0, 3, 6, 9}

-----------------------------------------------------------------------------
(* SpecResponse: an API page whose fetches are answered by bodies of every   *)
(* shape, with and without a transform.                                     *)

ResponseConfigs ==
    {Config(ApiSource("none"), Server(FALSE, FALSE, FALSE), DefaultFilters),
     Config(ApiSource("items"), Server(FALSE, FALSE, FALSE), DefaultFilters)}

ResponseRows == {<<>>, <<RowA>>, <<RowA, RowI>>}

\* bodies: an array, {data: rows}, {items: rows}, null, a string, {data: "x"};
\* and the failures of the request itself
ResponseSet ==
    {Ok(Payload(shape, rows)) : shape \in {"array", "data", "items"}, rows \in ResponseRows}
    \cup {Ok(Payload(shape, <<>>)) : shape \in {"null", "text", "dataText"}}
    \cup {NotOk("http"), NotOk("network"), NotOk("badjson")}

InitResponse ==
    /\ \E cfg \in ResponseConfigs : Constructed(cfg)
    /\ csvCall = NoCsv
    /\ qbCall = NoQb
    /\ presetCall = NoPreset
    /\ delivered = NoDelivery

\* the response of an API fetch arrives, and is remembered
Deliver(req, resp) ==
    /\ req \in inflight
    /\ complete(req, resp)
    /\ delivered' = [req |-> req, resp |-> resp]
    /\ UNCHANGED <<pageVars, clock, csvCall, qbCall, presetCall>>

NextResponse ==
    \/ Mount
    \/ \E pg \in SpecPaginations : setPagination(pg)
    \/ \E req \in inflight, resp \in ResponseSet : Deliver(req, resp)

SpecResponse == InitResponse /\ [][NextResponse]_vars

\* the row set C12 states for a body: the transform's result (here the body's
\* items) when a transform is configured, else the body when it is an array,
\* else its data when that is an array; the empty list when that is no array
C12_Rows(transform, payload) ==
    IF transform # "none"
    THEN (IF payload.shape = "items" THEN payload.rows ELSE <<>>)
    ELSE IF payload.shape \in {"array", "data"} THEN payload.rows
    ELSE <<>>

\* C12: after every successful API response (status ok, body parsed) the row
\* set is the array C12 states, the empty list for every body of another
\* shape, and the response does not set the error state.
C12_ResponseNormalised ==
    [][(delivered' # delivered /\ delivered'.resp.kind = "ok") =>
          /\ data' = C12_Rows(delivered'.req.transform, delivered'.resp.payload)
          /\ error' = error]_vars

-----------------------------------------------------------------------------
(* SpecText: a mock page with one text filter over rows whose field holds   *)
(* scalars of every kind.                                                   *)

TextValues ==
    {Undefined, Null, Num(0), Num(10), Bool(FALSE), Bool(TRUE),
     Str(<<"0">>), Str(<<"F", "a", "l", "s", "e", "!">>)}

TextRows == {Row(Str(<<"A">>), v, Iso(Day(0))) : v \in TextValues}

TextQueries ==
    {StrFV(<<" ">>), StrFV(<<"0">>), StrFV(<<"1", "0", " ">>),
     StrFV(<<" ", "F", "A", "L", "S", "E">>), StrFV(<<"u">>)}

InitText ==
    /\ \E rows \in SeqsUpTo(TextRows, MaxRows) :
          Constructed(Config(DataSource("mock", "", "none", rows),
                             Server(FALSE, FALSE, FALSE),
                             <<[type |-> "text", field |-> "location"]>>))
    /\ csvCall = NoCsv
    /\ qbCall = NoQb
    /\ presetCall = NoPreset
    /\ delivered = NoDelivery

NextText ==
    \/ Mount
    \/ \E q \in TextQueries : handleText("location", q, 0)

SpecText == InitText /\ [][NextText]_vars

\* the string form C14 gives a field value: empty for a missing value only
C14_Text(v) == IF v.k \in {"undef", "null"} THEN <<>> ELSE JsString(v)

\* the rows of the row list that C14 lets pass the query q, by index
C14_Passing(q) ==
    {i \in 1..Len(data) :
        includes(toLowerCase(C14_Text(data[i]["location"])), toLowerCase(trim(q)))}

\* C14: for a text filter whose query is not empty after trimming, a row is
\* shown iff the lowercased string form of its field value contains the
\* lowercased trimmed query, where only a null or undefined value counts as
\* the empty string; so also for the number 0 and the boolean false.
C14_TextMatch ==
    LET fs == ObjGet(filtersState, "location", UndefFV)
    IN (started > 0 /\ fs.k = "str" /\ trim(fs.s) # <<>>) =>
          LET idx == SeqFilter([i \in 1..Len(data) |-> i], C14_Passing(fs.s))
          IN filteredData = [n \in 1..Len(idx) |-> data[idx[n]]]

-----------------------------------------------------------------------------
(* SpecEncode: an API page with server-side filtering whose earlier fetch   *)
(* has been answered; fetches are counted from there.  The date filter's    *)
(* state is any the panel can have built, and every change refetches.       *)

EncodeConfigs ==
    {Config(ApiSource("none"), Server(TRUE, FALSE, FALSE), filters) :
        filters \in {<<[type |-> "date", field |-> "createdAt"]>>, DefaultFilters}}

EncodePresets == {UndefDV, Preset("lastNDays", DefaultDays), Preset("nextWeek", 0)}
EncodeDates == {EmptyDV, DateStr(Day(-1))}

InitEncode ==
    /\ \E cfg \in EncodeConfigs, fState \in FilterStatesOf(<<DefaultFilters[3]>>) :
          /\ config = cfg
          /\ filtersState = fState
          /\ applied = <<[rows |-> <<RowA>>,
                          url |-> requestUrl(cfg, fState, DefaultPagination, <<>>,
                                             StartOfRun),
                          id |-> 1]>>
    /\ pagination = DefaultPagination
    /\ sorting = <<>>
    /\ data = <<RowA>>
    /\ loading = FALSE
    /\ error = NullErr
    /\ inflight = {}
    /\ started = 1
    /\ failed = {}
    /\ rowSelection = {}
    /\ exported = NoExport
    /\ clock = StartOfRun
    /\ now = StartOfRun
    /\ tickAt = 0
    /\ csvCall = NoCsv
    /\ qbCall = NoQb
    /\ presetCall = NoPreset
    /\ delivered = NoDelivery

NextEncode ==
    \/ \E v \in EncodePresets : handleDatePreset("createdAt", v, 0)
    \/ \E v \in EncodeDates : handleDateStart("createdAt", v, 0)
    \/ \E v \in EncodeDates : handleDateEnd("createdAt", v, 0)
    \/ clearField("createdAt", 0)
    \/ \E pg \in SpecPaginations : setPagination(pg)
    \/ \E req \in inflight, resp \in SpecResponses : Respond(req, resp)

SpecEncode == InitEncode /\ [][NextEncode]_vars

\* whether the client-side evaluator enforces the bound ("start" or "end")
\* for the date filter state fs
C17_ClientEnforces(fs, bound, rd) ==
    /\ fs.k = "obj"
    /\ LET p == ObjGet(fs.o, "preset", UndefDV)
           r == getPresetDateRange(p, rd)
       IN \/ TruthyDV(ObjGet(fs.o, bound, UndefDV))
          \/ TruthyDV(p) /\ r[bound].k = "date"

C17_Sent(url, key) == \E p \in Range(url) : p.key = key

\* C17: for every date filter state, the request of a fetch with
\* server.filtering carries <field>From iff the client-side evaluator would
\* enforce a start bound for that state, and <field>To iff it would enforce an
\* end bound, also when the state has both a preset and explicit bounds or a
\* preset of an unknown type.
C17_EncoderMatchesEvaluator ==
    [][\A req \in inflight' \ inflight :
          config'.server.filtering =>
             \A j \in 1..Len(config'.filters) :
                LET f == config'.filters[j]
                    fs == ObjGet(filtersState', f.field, UndefFV)
                    rd == [r \in 1..ReadsPerTest |-> clock']
                IN f.type = "date" =>
                     /\ C17_Sent(req.url, f.field \o "From")
                           <=> C17_ClientEnforces(fs, "start", rd)
                     /\ C17_Sent(req.url, f.field \o "To")
                           <=> C17_ClientEnforces(fs, "end", rd)]_vars

=============================================================================
